---- MODULE Spec2Model ----
(***************************************************************************)
(* Resumable evaluation loop of the two drivers of the repository:         *)
(*   src/src/main.py                    (driver "main", OpenAI backend)    *)
(*   src/src/agir_emotion_master_test.py (driver "agir", local HTTP API)   *)
(* The model covers setup_directories, load_progress / save_progress /     *)
(* save_result, the retry loop of query_gpt / query_agir_api and run_test, *)
(* at the granularity of the file-system calls and backend requests, with  *)
(* process termination possible between any two of them.                   *)
(***************************************************************************)
EXTENDS Integers, Sequences, FiniteSets, TLC

\* ------------------------------------------------------------------ bounds
\* number of records of the dataset (EU.jsonl)
NumItems == 2
\* number of process starts (first run plus restarts) explored
MaxRuns == 2
\* largest value of the retries parameter of the query functions explored
MaxRetries == 2
\* largest value given to --limit
MaxLimit == 1

\* --------------------------------------------------------------- constants
Drivers == {"main", "agir"}

\* values of MODEL_NAME: GPT_MODEL is read from the environment in main.py,
\* the agir driver pins it
MainModels == {"gpt-4.1-nano", "o4", "o4-mini"}

AgirModel == "agir-learner"

\* the dataset: item i has qid i; qids are unique
Data == [i \in 1..NumItems |-> i]

\* --limit: <<>> is "not given" (None), <<n>> an integer (argparse type=int)
Limits == {<<>>} \cup {<<n>> : n \in (0 - 1)..MaxLimit}

\* classes of what one backend request can produce
NetworkFailures == {"timeout", "conn_error", "http_error"}

EmptyCompletions == {"empty", "blank"}

Outcomes ==
  NetworkFailures \cup EmptyCompletions
    \cup {"no_choices", "unparseable", "empty_object", "answer"}

\* contents of the progress file
Absent == [kind |-> "absent", ids |-> <<>>]

Partial == [kind |-> "partial", ids |-> <<>>]

Ledger(ids) == [kind |-> "ledger", ids |-> ids]

VARIABLES
  driver,          \* which script is run
  MODEL_NAME,      \* module constant MODEL_NAME
  retries,         \* retries parameter of the query function
  unlabelled,      \* qids of the dataset lines that lack a gold label
  dirs,            \* existing result directories (version numbers)
  results,         \* results.jsonl of each directory: sequence of lines
  progress,        \* progress.json of each directory
  pc,              \* position of the process
  resume,          \* args.resume
  limit,           \* args.limit
  test_connection, \* args.test_connection
  MODEL_RESULTS_DIR, \* directory the run writes to (0: not set)
  processed_ids,   \* run_test local
  data_to_process, \* run_test local
  idx,             \* position of the for loop of run_test (1-based)
  attempt,         \* loop variable of the query function
  params_content,  \* params["messages"][0]["content"]
  gpt_response,    \* value returned by the query function
  exit_status,     \* status of sys.exit, 0 while running
  stats,           \* value returned by calculate_statistics
  \* -- observation (history) variables
  runs,            \* number of process starts so far
  requests,        \* requests sent for the item in flight
  sent,            \* content of the last request sent
  last_outcome,    \* outcome of the last request of the item in flight
  run_base,        \* number of result lines in the location at run start
  base_progress,   \* progress file of the location at run start
  clean_hist,      \* every restart on a used location was a --resume
  boundary_hist,   \* every stop so far was at an item boundary
  skipped,         \* the run has taken the "Skipping item" branch
  \* -- one call of a function on its own (function-level specification)
  ppc,             \* which function is called, and whether it returned
  lead,            \* text before the answer in the completion text
  core,            \* the answer part of the completion text
  trail,           \* text after the answer in the completion text
  obj,             \* the answer object the core was written from, if any
  extracted,       \* what the extraction of the query function gave
  api_response,    \* evaluate_responses argument: the answer dict
  gold,            \* evaluate_responses argument: the dataset item
  eval_result,     \* evaluate_responses return value
  ids_arg,         \* save_progress argument
  progress_text,   \* text of progress.json
  ids_loaded,      \* load_progress return value
  dirs_before,     \* versions of the result directory that exist
  globals,         \* MODEL_RESULTS_DIR, PROGRESS_FILE, RESULTS_FILE
  dirs_after,      \* the versions that exist after setup_directories
  result_lines,    \* lines of a results file written by save_result
  report           \* calculate_statistics / calculate_metrics return value

runvars ==
  <<driver, MODEL_NAME, retries, unlabelled, dirs, results, progress, pc,
    resume, limit, test_connection, MODEL_RESULTS_DIR, processed_ids,
    data_to_process, idx, attempt, params_content, gpt_response,
    exit_status, stats, runs, requests, sent, last_outcome, run_base,
    base_progress, clean_hist, boundary_hist, skipped>>

pure ==
  <<ppc, lead, core, trail, obj, extracted, api_response, gold, eval_result,
    ids_arg, progress_text, ids_loaded, dirs_before, globals,
    dirs_after, result_lines, report>>

\* arguments and results of setup_directories called on its own
dirvars == <<dirs_before, globals, dirs_after>>

\* a results file and the statistics computed from it on their own
statvars == <<result_lines, report>>

vars == <<runvars, pure>>

config == <<driver, MODEL_NAME, retries, unlabelled>>

args == <<resume, limit, test_connection>>

files == <<dirs, results, progress>>

hist == <<runs, run_base, base_progress, clean_hist, boundary_hist, skipped>>

Stopped == {"idle", "done", "exited", "crashed", "killed"}

\* ----------------------------------------------------------------- helpers
SeqToSet(s) == {s[i] : i \in 1..Len(s)}

Min(a, b) == IF a < b THEN a ELSE b

Max(a, b) == IF a > b THEN a ELSE b

\* Python slice s[:n]
SliceTo(s, n) ==
  IF n >= 0 THEN SubSeq(s, 1, Min(n, Len(s)))
            ELSE SubSeq(s, 1, Max(Len(s) + n, 0))

\* variant: nothing is filtered out
FilterProcessed_none(data, ids) == data

\* [item for item in data if item["qid"] not in processed_ids]
FilterProcessed(data, ids) ==
  LET Keep(q) == q \notin SeqToSet(ids)
  IN  SelectSeq(data, Keep)

\* result directories that can come to exist: one per process start
DirIds == 1..MaxRuns

\* ------------------------------------------------------ setup_directories
\* agir driver: version = 1; while the candidate exists: version += 1
RECURSIVE probe_version(_, _)
probe_version(version, existing) ==
  IF version \notin existing THEN version
                             ELSE probe_version(version + 1, existing)

\* highest version of the result directory that may exist beforehand
MaxDirs == 3

\* lines of a results file the statistics are computed from
MaxLines == 3

\* MODEL_RESULTS_DIR, PROGRESS_FILE and RESULTS_FILE before the call
NoGlobals ==
  [MODEL_RESULTS_DIR |-> 0,
   PROGRESS_FILE |-> [dir |-> 0, name |-> ""],
   RESULTS_FILE |-> [dir |-> 0, name |-> ""]]

\* the three globals once directory d (version d of the name) is chosen
module_globals(d) ==
  [MODEL_RESULTS_DIR |-> d,
   PROGRESS_FILE |-> [dir |-> d, name |-> "progress.json"],
   RESULTS_FILE |-> [dir |-> d, name |-> "results.jsonl"]]

\* variant: the version after the highest existing one is taken
setup_directories_after_last(drv, existing) ==
  IF drv = "main" \/ existing = {} THEN 1
  ELSE 1 + (CHOOSE v \in existing : \A w \in existing : w <= v)

\* variant: the agir driver without the version probe
setup_directories_unversioned(drv, existing) == 1

\* the directory setup_directories selects; main.py has the fixed
\* MODEL_RESULTS_DIR (directory 1), mkdir(exist_ok=True)
setup_directories(drv, existing) ==
  IF drv = "main" THEN 1 ELSE probe_version(1, existing)

\* --------------------------------------------------------- progress ledger
\* load_progress: [] if the file does not exist, else its processed_ids;
\* json.load raises on a truncated file (handled by the caller's action)
load_progress(file) ==
  IF file.kind = "ledger" THEN file.ids ELSE <<>>

\* variant: the ledger is written one item late
save_progress_lagging(ids) ==
  Ledger(SubSeq(ids, 1, Len(ids) - 1))

\* save_progress, what json.dump leaves in the file once it returned
save_progress(ids) == Ledger(ids)

\* variant: the qid is not recorded
append_id_dropped(ids, qid) == ids

\* variant: the qid is put in front of the list
append_id_front(ids, qid) == <<qid>> \o ids

\* processed_ids.append(item["qid"])
append_id(ids, qid) == Append(ids, qid)


\* variant: the new line is put in front
save_result_prepend(lines, result) == <<result>> \o lines

\* variant: the file is opened with 'w', the new line replaces the old ones
save_result_overwrite(lines, result) == <<result>>

\* variant: the line is not written
save_result_lost(lines, result) == lines

\* save_result: one line appended to the results file
save_result(lines, result) == Append(lines, result)

\* ------------------------------------------------------------ query client
\* variant: off by one, a retry is planned after the last attempt
HasAttemptsLeft_off_by_one(att, r) == att < r

RetrySleep == [act |-> "sleep", value |-> "none"]

RetryNow == [act |-> "continue", value |-> "none"]

Abort == [act |-> "exit", value |-> "none"]

Return(v) == [act |-> "return", value |-> v]

\* the test "attempt < retries - 1" guarding every retry
HasAttemptsLeft(att, r) == att < r - 1

\* message content of the request built at the top of each attempt
BuildContent(drv, model) ==
  IF drv = "main" /\ model = "o4-mini" THEN "prompt+json_instruction"
                                       ELSE "prompt"

\* variant: an empty completion is handed on as an empty answer object
query_gpt_empty_as_object(model, att, r, o) ==
  CASE o \in NetworkFailures ->
         IF att < r - 1 THEN RetrySleep ELSE Abort
    [] o = "no_choices" -> Abort
    [] o \in EmptyCompletions -> Return("empty_object")
    [] o = "unparseable" -> Abort
    [] OTHER -> Return(o)

\* variant: the empty-completion retry is taken for every model
query_gpt_retry_any_model(model, att, r, o) ==
  CASE o \in NetworkFailures ->
         IF att < r - 1 THEN RetrySleep ELSE Abort
    [] o = "no_choices" -> Abort
    [] o \in EmptyCompletions ->
         IF att < r - 1 THEN RetryNow ELSE Abort
    [] o = "unparseable" -> Abort
    [] OTHER -> Return(o)

\* query_gpt: what one attempt does with the outcome of its request
query_gpt(model, att, r, o) ==
  CASE o \in NetworkFailures ->
         IF HasAttemptsLeft(att, r) THEN RetrySleep ELSE Abort
    [] o = "no_choices" -> Abort
    [] o \in EmptyCompletions ->
         IF HasAttemptsLeft(att, r)
           THEN (IF model = "o4-mini" THEN RetryNow ELSE Abort)
           ELSE Abort
    [] o = "unparseable" -> Abort
    [] OTHER -> Return(o)

\* variant: fail soft, None is returned once the attempts are used up
query_agir_api_lenient(att, r, o) ==
  IF o \in NetworkFailures \cup EmptyCompletions
            \cup {"no_choices", "unparseable"}
    THEN (IF att < r - 1 THEN RetrySleep ELSE Return("none"))
    ELSE Return(o)

\* variant: parse or exit, as in main.py
query_agir_api_parse_or_exit(att, r, o) ==
  IF o = "unparseable" THEN Abort
  ELSE IF o \in NetworkFailures \cup EmptyCompletions \cup {"no_choices"}
    THEN (IF att < r - 1 THEN RetrySleep ELSE Abort)
    ELSE Return(o)

\* query_agir_api: what one attempt does with the outcome of its request
query_agir_api(att, r, o) ==
  IF o \in NetworkFailures \cup EmptyCompletions
            \cup {"no_choices", "unparseable"}
    THEN (IF HasAttemptsLeft(att, r) THEN RetrySleep ELSE Abort)
    ELSE Return(o)

QueryStep(drv, model, att, r, o) ==
  IF drv = "main" THEN query_gpt(model, att, r, o)
                  ELSE query_agir_api(att, r, o)

\* "if gpt_response:" - None and {} are falsy
Truthy(resp) == resp = "answer"

\* the output location of the run and the item in flight
cur == MODEL_RESULTS_DIR

item == data_to_process[idx]

HasArtifacts(d) == Len(results[d]) > 0 \/ progress[d].kind # "absent"

\* --------------------------------------------------------- completion text
\* A text is a sequence of tokens: punctuation and words one by one, a
\* string literal taken whole (escapes inside a literal are left out).
P(c) == [t |-> "p", v |-> c]

Str(v) == [t |-> "str", v |-> v]

SP == P(" ")

\* longest commentary before and after the answer
MaxComment == 2

CommentTokens == {P("x"), SP, P("{"), P("}")}

RECURSIVE SeqsUpTo(_, _)
SeqsUpTo(S, n) ==
  IF n = 0 THEN {<<>>}
  ELSE LET shorter == SeqsUpTo(S, n - 1)
       IN shorter \cup {Append(q, x) : q \in shorter, x \in S}

\* what the backend may write around the answer
Comments == SeqsUpTo(CommentTokens, MaxComment)

\* whitespace only
Blanks == {c \in Comments : \A i \in 1..Len(c) : c[i] = SP}

EmotionChoices == {"joy", "sad"}

CauseChoices == {"win"}

Field(k, v, sp) ==
  <<Str(k), P(":")>> \o (IF sp THEN <<SP>> ELSE <<>>) \o <<Str(v)>>

\* the text of a JSON object with the keys emotion and cause
ObjectText(e, c, emotion_first, sp) ==
  LET E == Field("emotion", e, sp)
      C == Field("cause", c, sp)
      sep == <<P(",")>> \o (IF sp THEN <<SP>> ELSE <<>>)
  IN <<P("{")>> \o (IF emotion_first THEN E \o sep \o C ELSE C \o sep \o E)
       \o <<P("}")>>

NoObject == [valid |-> FALSE, emotion |-> "", cause |-> ""]

AnswerObject(e, c) == [valid |-> TRUE, emotion |-> e, cause |-> c]

\* answer parts that are not such an object: nothing, {}, one key only, a
\* trailing comma, the two fields without braces, a bare string
OtherCores ==
  { <<>>,
    <<P("{"), P("}")>>,
    <<P("{")>> \o Field("emotion", "joy", FALSE) \o <<P("}")>>,
    <<P("{")>> \o Field("emotion", "joy", FALSE) \o <<P(",")>>
      \o Field("cause", "win", FALSE) \o <<P(","), P("}")>>,
    Field("emotion", "joy", TRUE) \o <<P(",")>> \o Field("cause", "win", TRUE),
    <<Str("joy")>> }

\* ---------------------------------------------------------------- results
EmptyDict == [k \in {} |-> ""]

NotCalled == [kind |-> "none", obj |-> EmptyDict]

\* json.JSONDecodeError
JSONDecodeError == [kind |-> "error", obj |-> EmptyDict]

\* the empty-content branch
EmptyContent == [kind |-> "empty", obj |-> EmptyDict]

\* a dict
Dict(f) == [kind |-> "dict", obj |-> f]

\* json.loads of a text that is a JSON string
JsonString == [kind |-> "str", obj |-> EmptyDict]

Least(S) == CHOOSE x \in S : \A y \in S : x <= y

Greatest(S) == CHOOSE x \in S : \A y \in S : x >= y

NotSpace(tok) == tok # SP

RECURSIVE lstrip(_)
lstrip(s) == IF s # <<>> /\ Head(s) = SP THEN lstrip(Tail(s)) ELSE s

RECURSIVE rstrip(_)
rstrip(s) ==
  IF s # <<>> /\ s[Len(s)] = SP THEN rstrip(SubSeq(s, 1, Len(s) - 1)) ELSE s

\* str.strip()
strip(s) == rstrip(lstrip(s))

\* variant: whitespace is not accepted
json_loads_no_whitespace(s) ==
  LET n == Len(s)
      inner == SubSeq(s, 2, n - 1)
      m == Len(inner)
      Keys == {q \in 1..m : q % 4 = 1}
  IN IF n = 1 /\ s[1].t = "str" THEN JsonString
     ELSE IF n < 2 \/ s[1] # P("{") \/ s[n] # P("}") THEN JSONDecodeError
     ELSE IF m = 0 THEN Dict(EmptyDict)
     ELSE IF m % 4 # 3 THEN JSONDecodeError
     ELSE IF \A q \in 1..m :
               CASE q % 4 = 1 -> inner[q].t = "str"
                 [] q % 4 = 2 -> inner[q] = P(":")
                 [] q % 4 = 3 -> inner[q].t = "str"
                 [] OTHER -> inner[q] = P(",")
       THEN Dict([k \in {inner[q].v : q \in Keys} |->
                    inner[Greatest({q \in Keys : inner[q].v = k}) + 2].v])
       ELSE JSONDecodeError

\* json.loads: whitespace between tokens is skipped; an object is { },
\* or { "key": "value" , ... } where the last of equal keys wins; a
\* lone string is a value too; anything else raises JSONDecodeError
json_loads(s) ==
  LET t == SelectSeq(s, NotSpace)
      n == Len(t)
      inner == SubSeq(t, 2, n - 1)
      m == Len(inner)
      Keys == {q \in 1..m : q % 4 = 1}
  IN IF n = 1 /\ t[1].t = "str" THEN JsonString
     ELSE IF n < 2 \/ t[1] # P("{") \/ t[n] # P("}") THEN JSONDecodeError
     ELSE IF m = 0 THEN Dict(EmptyDict)
     ELSE IF m % 4 # 3 THEN JSONDecodeError
     ELSE IF \A q \in 1..m :
               CASE q % 4 = 1 -> inner[q].t = "str"
                 [] q % 4 = 2 -> inner[q] = P(":")
                 [] q % 4 = 3 -> inner[q].t = "str"
                 [] OTHER -> inner[q] = P(",")
       THEN Dict([k \in {inner[q].v : q \in Keys} |->
                    inner[Greatest({q \in Keys : inner[q].v = k}) + 2].v])
       ELSE JSONDecodeError

\* ------------------------------------------------------------- extraction
\* text_content.startswith('{') and text_content.endswith('}')
LooksLikeObject(t) == t # <<>> /\ t[1] = P("{") /\ t[Len(t)] = P("}")

ClosingAfter(t, i) == {j \in (i + 1)..Len(t) : t[j] = P("}")}

\* where \{[^}]*"emotion"[^}]*"cause"[^}]*\} can match: from a { up to
\* the first } after it, with "emotion" and later "cause" in between
MatchStarts(t) ==
  {i \in 1..Len(t) :
     /\ t[i] = P("{")
     /\ ClosingAfter(t, i) # {}
     /\ \E e, c \in (i + 1)..(Least(ClosingAfter(t, i)) - 1) :
          e < c /\ t[e] = Str("emotion") /\ t[c] = Str("cause")}

\* re.search of that pattern: the leftmost match, <<>> for None
json_match(t) ==
  IF MatchStarts(t) = {} THEN <<>>
  ELSE LET i == Least(MatchStarts(t))
       IN SubSeq(t, i, Least(ClosingAfter(t, i)))

\* \s*: the next position that is not whitespace
SkipSpaces(t, p) ==
  Least({q \in p..(Len(t) + 1) : q = Len(t) + 1 \/ t[q] # SP})

\* "key"\s*:\s*"([^"]*)" matches at position p
FieldAt(t, p, key) ==
  /\ t[p] = Str(key)
  /\ LET a == SkipSpaces(t, p + 1)
     IN /\ a <= Len(t)
        /\ t[a] = P(":")
        /\ LET b == SkipSpaces(t, a + 1)
           IN b <= Len(t) /\ t[b].t = "str"

\* re.search of a field pattern matches somewhere
field_match(t, key) == \E p \in 1..Len(t) : FieldAt(t, p, key)

\* group(1) of the leftmost match
field_group(t, key) ==
  LET p == Least({q \in 1..Len(t) : FieldAt(t, q, key)})
  IN t[SkipSpaces(t, SkipSpaces(t, p + 1) + 1)].v

\* step 1: json.loads of the whole text if it starts with { and ends with }
parse_whole(t) ==
  IF LooksLikeObject(t) THEN json_loads(t) ELSE JSONDecodeError

\* step 2: json.loads of the substring the pattern matches
parse_match(t) ==
  IF json_match(t) # <<>> THEN json_loads(json_match(t)) ELSE JSONDecodeError

\* step 3: the two field patterns, each on its own
extract_fields(t) ==
  IF field_match(t, "emotion") /\ field_match(t, "cause")
    THEN Dict([emotion |-> field_group(t, "emotion"),
               cause |-> field_group(t, "cause")])
    ELSE JSONDecodeError

\* query_agir_api from the text of the first choice on: the empty check,
\* then one of the three steps, chosen by the shape of the text; a
\* JSONDecodeError of the chosen step goes to the except clause
query_agir_api_extract(text_content) ==
  LET t == strip(text_content)
  IN IF t = <<>> THEN EmptyContent
     ELSE IF LooksLikeObject(t) THEN parse_whole(t)
     ELSE IF json_match(t) # <<>> THEN parse_match(t)
     ELSE extract_fields(t)

\* query_gpt from the message content on: the empty check, then json.loads
\* of the content as it is
query_gpt_extract(content) ==
  IF strip(content) = <<>> THEN EmptyContent ELSE json_loads(content)

\* ----------------------------------------------------------------- scoring
Labels == {"joy", "Joy", "win", ""}

\* the dicts an answer may be: each key present or not
Answers ==
  UNION {[K -> Labels] : K \in SUBSET {"emotion", "cause"}}

NoItem == [qid |-> 0, emotion_label |-> "", cause_label |-> ""]

\* the dataset line of a qid (the fields that are scored): the gold
\* emotion is joy on odd lines and sad on even ones; a defective line
\* lacks its emotion_label (odd qid) or its cause_label (even qid)
EU(q) ==
  LET emotion == IF q % 2 = 1 THEN "joy" ELSE "sad"
  IN IF q \notin unlabelled
       THEN [qid |-> q, emotion_label |-> emotion, cause_label |-> "win"]
     ELSE IF q % 2 = 1 THEN [qid |-> q, cause_label |-> "win"]
     ELSE [qid |-> q, emotion_label |-> emotion]

\* the datasets that are run: the complete one, and with one defective
\* line (in one configuration, scoring reads nothing of the configuration)
Datasets(drv, model, r) ==
  IF drv = "main" /\ model = "gpt-4.1-nano" /\ r = 1
    THEN {{}} \cup {{q} : q \in 1..NumItems}
    ELSE {{}}

\* --test-connection exists in the agir driver only
Modes(drv) == IF drv = "agir" THEN BOOLEAN ELSE {FALSE}

\* item["emotion_label"], item["cause_label"] of a line without them
KeyError == [raised |-> "KeyError"]

HasLabels(entry) == {"emotion_label", "cause_label"} \subseteq DOMAIN entry

\* dict.get(k, default)
Get(d, k, default) == IF k \in DOMAIN d THEN d[k] ELSE default

\* variant: labels are compared without regard to case
evaluate_responses_caseless(resp, entry) ==
  LET Lower(v) == IF v = "Joy" THEN "joy" ELSE v
      predicted_emotion == Get(resp, "emotion", "")
      predicted_cause == Get(resp, "cause", "")
      emotion_correct == Lower(predicted_emotion) = Lower(entry.emotion_label)
      cause_correct == Lower(predicted_cause) = Lower(entry.cause_label)
  IN IF ~HasLabels(entry) THEN KeyError
     ELSE [qid |-> entry.qid,
           true_emotion |-> entry.emotion_label,
           predicted_emotion |-> predicted_emotion,
           emotion_correct |-> emotion_correct,
           true_cause |-> entry.cause_label,
           predicted_cause |-> predicted_cause,
           cause_correct |-> cause_correct,
           both_correct |-> emotion_correct /\ cause_correct]

\* variant: a missing gold label is read as ""
evaluate_responses_default(resp, entry) ==
  LET true_emotion == Get(entry, "emotion_label", "")
      true_cause == Get(entry, "cause_label", "")
      predicted_emotion == Get(resp, "emotion", "")
      predicted_cause == Get(resp, "cause", "")
      emotion_correct == predicted_emotion = true_emotion
      cause_correct == predicted_cause = true_cause
  IN [qid |-> entry.qid,
      true_emotion |-> true_emotion,
      predicted_emotion |-> predicted_emotion,
      emotion_correct |-> emotion_correct,
      true_cause |-> true_cause,
      predicted_cause |-> predicted_cause,
      cause_correct |-> cause_correct,
      both_correct |-> emotion_correct /\ cause_correct]

\* variant: one correct label is enough for both_correct
evaluate_responses_either(resp, entry) ==
  LET predicted_emotion == Get(resp, "emotion", "")
      predicted_cause == Get(resp, "cause", "")
      emotion_correct == predicted_emotion = entry.emotion_label
      cause_correct == predicted_cause = entry.cause_label
  IN IF ~HasLabels(entry) THEN KeyError
     ELSE [qid |-> entry.qid,
           true_emotion |-> entry.emotion_label,
           predicted_emotion |-> predicted_emotion,
           emotion_correct |-> emotion_correct,
           true_cause |-> entry.cause_label,
           predicted_cause |-> predicted_cause,
           cause_correct |-> cause_correct,
           both_correct |-> emotion_correct \/ cause_correct]

\* evaluate_responses: the persisted record (scenario and subject, copied
\* from the item, are left out)
evaluate_responses(resp, entry) ==
  LET predicted_emotion == Get(resp, "emotion", "")
      predicted_cause == Get(resp, "cause", "")
      emotion_correct == predicted_emotion = entry.emotion_label
      cause_correct == predicted_cause = entry.cause_label
  IN IF ~HasLabels(entry) THEN KeyError
     ELSE [qid |-> entry.qid,
           true_emotion |-> entry.emotion_label,
           predicted_emotion |-> predicted_emotion,
           emotion_correct |-> emotion_correct,
           true_cause |-> entry.cause_label,
           predicted_cause |-> predicted_cause,
           cause_correct |-> cause_correct,
           both_correct |-> emotion_correct /\ cause_correct]

NoResult == evaluate_responses(EmptyDict, NoItem)

\* ------------------------------------------------------------- statistics
NoStats == [total_items |-> 0 - 1]

\* {"error": "No results file found"}
StatsError == [error |-> "No results file found"]

\* sum(1 for r in results if r[flag])
CountTrue(lines, flag) ==
  Cardinality({i \in 1..Len(lines) : lines[i][flag]})

\* count / total if total > 0 else 0, as the fraction <<count, total>>
Accuracy(count, total) == IF total > 0 THEN <<count, total>> ELSE <<0, 1>>

\* variant: the summary is not computed
calculate_statistics_unreported(lines) == NoStats

\* calculate_statistics: the results file exists once a line was appended
calculate_statistics(lines) ==
  IF lines = <<>> THEN StatsError
  ELSE LET total == Len(lines)
       IN [total_items |-> total,
           emotion_accuracy |->
             Accuracy(CountTrue(lines, "emotion_correct"), total),
           cause_accuracy |->
             Accuracy(CountTrue(lines, "cause_correct"), total),
           both_correct_accuracy |->
             Accuracy(CountTrue(lines, "both_correct"), total)]

\* analyze_results.calculate_metrics: the same figures from loaded lines
calculate_metrics(lines) ==
  LET total == Len(lines)
  IN [total_items |-> total,
      emotion_accuracy |->
        Accuracy(CountTrue(lines, "emotion_correct"), total),
      cause_accuracy |->
        Accuracy(CountTrue(lines, "cause_correct"), total),
      both_correct_accuracy |->
        Accuracy(CountTrue(lines, "both_correct"), total)]

\* the dict an outcome of the "answer" class parses to
ParsedAnswer == [emotion |-> "joy", cause |-> "win"]

\* -------------------------------------------------------------------- Init
RunInit ==
  /\ driver \in Drivers
  /\ MODEL_NAME \in (IF driver = "main" THEN MainModels ELSE {AgirModel})
  /\ retries \in 1..MaxRetries
  /\ unlabelled \in Datasets(driver, MODEL_NAME, retries)
  /\ dirs = {}
  /\ results = [d \in DirIds |-> <<>>]
  /\ progress = [d \in DirIds |-> Absent]
  /\ pc = "idle"
  /\ resume = FALSE
  /\ limit = <<>>
  /\ test_connection = FALSE
  /\ stats = NoStats
  /\ skipped = FALSE
  /\ MODEL_RESULTS_DIR = 0
  /\ processed_ids = <<>>
  /\ data_to_process = <<>>
  /\ idx = 0
  /\ attempt = 0
  /\ params_content = "none"
  /\ gpt_response = "none"
  /\ exit_status = 0
  /\ runs = 0
  /\ requests = 0
  /\ sent = "none"
  /\ last_outcome = "none"
  /\ run_base = 0
  /\ base_progress = Absent
  /\ clean_hist = TRUE
  /\ boundary_hist = TRUE

\* no function is called on its own while the scripts run
PureOff ==
  /\ ppc = "off"
  /\ lead = <<>> /\ core = <<>> /\ trail = <<>>
  /\ obj = NoObject
  /\ extracted = NotCalled
  /\ api_response = EmptyDict
  /\ gold = NoItem
  /\ eval_result = NoResult
  /\ ids_arg = <<>>
  /\ progress_text = <<>>
  /\ ids_loaded = <<>>
  /\ dirs_before = {} /\ globals = NoGlobals /\ dirs_after = {}
  /\ result_lines = <<>> /\ report = NoStats

Init == RunInit /\ PureOff

\* ----------------------------------------------------------------- actions
\* the script is started (again): module globals are re-initialised and
\* the command line is parsed
Start(r, l, tc) ==
  /\ pc \in Stopped
  /\ runs < MaxRuns
  /\ pc' = "setup"
  /\ resume' = r
  /\ limit' = l
  /\ test_connection' = tc
  /\ stats' = NoStats
  /\ skipped' = FALSE
  /\ MODEL_RESULTS_DIR' = (IF driver = "main" THEN 1 ELSE 0)
  /\ processed_ids' = <<>>
  /\ data_to_process' = <<>>
  /\ idx' = 0
  /\ attempt' = 0
  /\ params_content' = "none"
  /\ gpt_response' = "none"
  /\ exit_status' = 0
  /\ runs' = runs + 1
  /\ requests' = 0
  /\ sent' = "none"
  /\ last_outcome' = "none"
  /\ UNCHANGED <<pure, config, files, run_base, base_progress, clean_hist,
                 boundary_hist>>

\* main(): setup_directories() selects and creates the output location
SetupDirectories ==
  /\ pc = "setup"
  /\ LET d == setup_directories(driver, dirs)
     IN  /\ MODEL_RESULTS_DIR' = d
         /\ dirs' = dirs \cup {d}
         /\ run_base' = Len(results[d])
         /\ base_progress' = progress[d]
         /\ clean_hist' = (clean_hist /\ (resume \/ ~HasArtifacts(d)))
  /\ pc' = (IF test_connection THEN "test_connection" ELSE "run_test")
  /\ UNCHANGED <<pure, config, results, progress, args, stats, processed_ids,
                 data_to_process, idx, attempt, params_content, gpt_response,
                 exit_status, runs, requests, sent, last_outcome,
                 boundary_hist, skipped>>

\* --test-connection: test_api_connection() posts one test prompt, the
\* outcome is logged and main returns
TestApiConnection(ok) ==
  /\ pc = "test_connection"
  /\ pc' = "done"
  /\ UNCHANGED <<pure, config, files, args, stats, MODEL_RESULTS_DIR,
                 processed_ids, data_to_process, idx, attempt,
                 params_content, gpt_response, exit_status, requests, sent,
                 last_outcome, hist>>

\* run_test up to the for loop: load_progress if resuming, filter, limit;
\* json.load on a truncated progress file raises and ends the process
RunTestBegin ==
  /\ pc = "run_test"
  /\ IF resume /\ progress[cur].kind = "partial"
       THEN /\ pc' = "crashed"
            /\ exit_status' = 1
            /\ boundary_hist' = FALSE
            /\ UNCHANGED <<processed_ids, data_to_process, idx>>
       ELSE LET ids == IF resume THEN load_progress(progress[cur]) ELSE <<>>
                todo == IF resume /\ ids # <<>>
                          THEN FilterProcessed(Data, ids) ELSE Data
            IN  /\ processed_ids' = ids
                /\ data_to_process' =
                     (IF limit = <<>> THEN todo ELSE SliceTo(todo, limit[1]))
                /\ idx' = 1
                /\ pc' = "loop"
                /\ UNCHANGED <<exit_status, boundary_hist>>
  /\ UNCHANGED <<pure, config, files, args, stats, MODEL_RESULTS_DIR, attempt,
                 params_content, gpt_response, runs, requests, sent,
                 last_outcome, run_base, base_progress, clean_hist, skipped>>

\* head of "for item in data_to_process": next item, or leave the loop
LoopHead ==
  /\ pc = "loop"
  /\ IF idx > Len(data_to_process)
       THEN /\ pc' = "stats"
            /\ UNCHANGED <<attempt, requests, last_outcome, params_content,
                           gpt_response>>
       ELSE /\ pc' = "attempt"
            /\ attempt' = 0
            /\ requests' = 0
            /\ last_outcome' = "none"
            /\ params_content' = "none"
            /\ gpt_response' = "none"
  /\ UNCHANGED <<pure, config, files, args, stats, MODEL_RESULTS_DIR,
                 processed_ids, data_to_process, idx, exit_status, sent,
                 hist>>

\* head of "for attempt in range(retries)": build params and send the
\* request, or fall off the loop and return None
Attempt ==
  /\ pc = "attempt"
  /\ IF attempt < retries
       THEN /\ params_content' = BuildContent(driver, MODEL_NAME)
            /\ sent' = BuildContent(driver, MODEL_NAME)
            /\ requests' = requests + 1
            /\ pc' = "await"
            /\ UNCHANGED gpt_response
       ELSE /\ gpt_response' = "none"
            /\ pc' = "returned"
            /\ UNCHANGED <<params_content, sent, requests>>
  /\ UNCHANGED <<pure, config, files, args, stats, MODEL_RESULTS_DIR,
                 processed_ids, data_to_process, idx, attempt, exit_status,
                 last_outcome, hist>>

\* the request returns or raises with outcome o; the rest of the attempt
Respond(o) ==
  /\ pc = "await"
  /\ last_outcome' = o
  /\ LET step == QueryStep(driver, MODEL_NAME, attempt, retries, o)
     IN  CASE step.act = "sleep" ->
                /\ pc' = "sleep"
                /\ UNCHANGED <<attempt, params_content, gpt_response,
                               exit_status, boundary_hist>>
           [] step.act = "continue" ->
                \* params["messages"][0]["content"] = simple_prompt; continue
                /\ pc' = "attempt"
                /\ attempt' = attempt + 1
                /\ params_content' = "simple_prompt"
                /\ UNCHANGED <<gpt_response, exit_status, boundary_hist>>
           [] step.act = "exit" ->
                /\ pc' = "exited"
                /\ exit_status' = 1
                /\ boundary_hist' = FALSE
                /\ UNCHANGED <<attempt, params_content, gpt_response>>
           [] step.act = "return" ->
                /\ pc' = "returned"
                /\ gpt_response' = step.value
                /\ UNCHANGED <<attempt, params_content, exit_status,
                               boundary_hist>>
  /\ UNCHANGED <<pure, config, files, args, stats, MODEL_RESULTS_DIR,
                 processed_ids, data_to_process, idx, runs, requests, sent,
                 run_base, base_progress, clean_hist, skipped>>

\* time.sleep(retry_delay), then the next iteration of the attempt loop
Sleep ==
  /\ pc = "sleep"
  /\ pc' = "attempt"
  /\ attempt' = attempt + 1
  /\ UNCHANGED <<pure, config, files, args, stats, MODEL_RESULTS_DIR,
                 processed_ids, data_to_process, idx, params_content,
                 gpt_response, exit_status, requests, sent, last_outcome,
                 hist>>

\* "if gpt_response:" - evaluate_responses, or skip the item; the
\* KeyError of a missing label is caught nowhere and ends the process
Evaluate ==
  /\ pc = "returned"
  /\ IF Truthy(gpt_response)
       THEN IF evaluate_responses(ParsedAnswer, EU(item)) = KeyError
              THEN /\ pc' = "crashed"
                   /\ exit_status' = 1
                   /\ boundary_hist' = FALSE
                   /\ UNCHANGED <<idx, skipped>>
              ELSE /\ pc' = "save_result"
                   /\ UNCHANGED <<idx, exit_status, boundary_hist, skipped>>
       ELSE /\ pc' = "loop"
            /\ idx' = idx + 1
            /\ skipped' = TRUE
            /\ UNCHANGED <<exit_status, boundary_hist>>
  /\ UNCHANGED <<pure, config, files, args, stats, MODEL_RESULTS_DIR,
                 processed_ids, data_to_process, attempt, params_content,
                 gpt_response, requests, sent, last_outcome, runs, run_base,
                 base_progress, clean_hist>>

\* save_result(result)
SaveResult ==
  /\ pc = "save_result"
  /\ results' = [results EXCEPT ![cur] =
                   save_result(@, evaluate_responses(ParsedAnswer, EU(item)))]
  /\ pc' = "append_id"
  /\ UNCHANGED <<pure, config, dirs, progress, args, stats, MODEL_RESULTS_DIR,
                 processed_ids, data_to_process, idx, attempt,
                 params_content, gpt_response, exit_status, requests, sent,
                 last_outcome, hist>>

\* processed_ids.append(item["qid"])
AppendId ==
  /\ pc = "append_id"
  /\ processed_ids' = append_id(processed_ids, item)
  /\ pc' = "save_progress"
  /\ UNCHANGED <<pure, config, files, args, stats, MODEL_RESULTS_DIR,
                 data_to_process, idx, attempt, params_content,
                 gpt_response, exit_status, requests, sent, last_outcome,
                 hist>>

\* save_progress: open(PROGRESS_FILE, 'w') truncates the file
SaveProgressOpen ==
  /\ pc = "save_progress"
  /\ progress' = [progress EXCEPT ![cur] = Partial]
  /\ pc' = "save_progress_write"
  /\ UNCHANGED <<pure, config, dirs, results, args, stats, MODEL_RESULTS_DIR,
                 processed_ids, data_to_process, idx, attempt,
                 params_content, gpt_response, exit_status, requests, sent,
                 last_outcome, hist>>

\* save_progress: json.dump writes the object and the file is closed;
\* the for loop of run_test advances
SaveProgressWrite ==
  /\ pc = "save_progress_write"
  /\ progress' = [progress EXCEPT ![cur] = save_progress(processed_ids)]
  /\ idx' = idx + 1
  /\ pc' = "loop"
  /\ UNCHANGED <<pure, config, dirs, results, args, stats, MODEL_RESULTS_DIR,
                 processed_ids, data_to_process, attempt, params_content,
                 gpt_response, exit_status, requests, sent, last_outcome,
                 hist>>

\* calculate_statistics and the summary; main returns
Statistics ==
  /\ pc = "stats"
  /\ stats' = calculate_statistics(results[cur])
  /\ pc' = "done"
  /\ UNCHANGED <<pure, config, files, args, MODEL_RESULTS_DIR,
                 processed_ids, data_to_process, idx, attempt,
                 params_content, gpt_response, exit_status, requests, sent,
                 last_outcome, hist>>

\* positions at which no item is partly persisted or in flight
BoundaryPcs == {"setup", "run_test", "loop", "stats"}

\* the process is terminated from outside, between any two steps; what it
\* held in memory is gone, the files stay as they are
Kill ==
  /\ pc \notin Stopped
  /\ pc' = "killed"
  /\ boundary_hist' = (boundary_hist /\ pc \in BoundaryPcs)
  /\ resume' = FALSE
  /\ limit' = <<>>
  /\ test_connection' = FALSE
  /\ stats' = NoStats
  /\ skipped' = FALSE
  /\ MODEL_RESULTS_DIR' = 0
  /\ processed_ids' = <<>>
  /\ data_to_process' = <<>>
  /\ idx' = 0
  /\ attempt' = 0
  /\ params_content' = "none"
  /\ gpt_response' = "none"
  /\ requests' = 0
  /\ sent' = "none"
  /\ last_outcome' = "none"
  /\ run_base' = 0
  /\ base_progress' = Absent
  /\ UNCHANGED <<pure, config, files, exit_status, runs, clean_hist>>

Next ==
  \/ \E r \in BOOLEAN, l \in Limits, tc \in Modes(driver) : Start(r, l, tc)
  \/ SetupDirectories
  \/ \E ok \in BOOLEAN : TestApiConnection(ok)
  \/ RunTestBegin
  \/ LoopHead
  \/ Attempt
  \/ \E o \in Outcomes : Respond(o)
  \/ Sleep
  \/ Evaluate
  \/ SaveResult
  \/ AppendId
  \/ SaveProgressOpen
  \/ SaveProgressWrite
  \/ Statistics
  \/ Kill

Spec == Init /\ [][Next]_vars

\* the steps the process itself takes, from setup_directories to the
\* summary, sys.exit(1) or an uncaught exception
ProgramNext ==
  \/ SetupDirectories
  \/ \E ok \in BOOLEAN : TestApiConnection(ok)
  \/ RunTestBegin
  \/ LoopHead
  \/ Attempt
  \/ \E o \in Outcomes : Respond(o)
  \/ Sleep
  \/ Evaluate
  \/ SaveResult
  \/ AppendId
  \/ SaveProgressOpen
  \/ SaveProgressWrite
  \/ Statistics

\* runs that are left alone: nothing terminates the process from outside;
\* a later start is a --resume (without it a run reads nothing an earlier
\* run left before its summary)
FairNext ==
  \/ \E r \in BOOLEAN, l \in Limits, tc \in Modes(driver) :
       (runs = 0 \/ r) /\ Start(r, l, tc)
  \/ ProgramNext

\* a started process keeps executing: every request returns or raises
\* (requests.post has a timeout), time.sleep returns, file operations
\* return; whether the script is started again is left open
SpecFair == Init /\ [][FairNext]_vars /\ WF_vars(ProgramNext)

\* ------------------------------------------------------ progress.json text
\* longest id list handed to save_progress on its own
MaxIds == 2

Qids == {"q1", "q2"}

IdLists == SeqsUpTo(Qids, MaxIds)

IsStr(tok) == tok.t = "str"

RECURSIVE dumps_list(_)
\* the elements of a JSON array, separated by ", "
dumps_list(ids) ==
  IF ids = <<>> THEN <<>>
  ELSE IF Len(ids) = 1 THEN <<Str(ids[1])>>
  ELSE <<Str(ids[1]), P(","), SP>> \o dumps_list(Tail(ids))

\* json.dump({"processed_ids": processed_ids, "updated_at": ...}, f)
json_dump_progress(ids) ==
  <<P("{"), Str("processed_ids"), P(":"), SP, P("[")>> \o dumps_list(ids)
    \o <<P("]"), P(","), SP, Str("updated_at"), P(":"), SP, Str("now"),
         P("}")>>

\* the array that follows a key of the object, [] if the key is absent
load_key(text, key) ==
  LET At == {p \in 1..Len(text) : text[p] = Str(key)}
  IN IF At = {} THEN <<>>
     ELSE LET a == Least({q \in Least(At)..Len(text) : text[q] = P("[")})
              b == Least({q \in a..Len(text) : text[q] = P("]")})
              elems == SelectSeq(SubSeq(text, a + 1, b - 1), IsStr)
          IN [i \in 1..Len(elems) |-> elems[i].v]

\* variant: another key is read
json_load_progress_other_key(text) == load_key(text, "processed")

\* json.load(f).get("processed_ids", [])
json_load_progress(text) == load_key(text, "processed_ids")

\* ------------------------------------------- functions called on their own
\* the completion text the extraction is called on
content == lead \o core \o trail

\* an extraction is called on a text: commentary, an answer part,
\* commentary
ExtractInit ==
  /\ ppc = "extract"
  /\ lead \in Comments
  /\ trail \in Comments
  /\ \/ \E e \in EmotionChoices, c \in CauseChoices, f, sp \in BOOLEAN :
          core = ObjectText(e, c, f, sp) /\ obj = AnswerObject(e, c)
     \/ core \in OtherCores /\ obj = NoObject
  /\ extracted = NotCalled
  /\ api_response = EmptyDict
  /\ gold = NoItem
  /\ eval_result = NoResult
  /\ ids_arg = <<>>
  /\ progress_text = <<>>
  /\ ids_loaded = <<>>
  /\ dirs_before = {} /\ globals = NoGlobals /\ dirs_after = {}
  /\ result_lines = <<>> /\ report = NoStats

\* evaluate_responses is called on an answer dict and a dataset item
ScoreInit ==
  /\ ppc = "score"
  /\ api_response \in Answers
  /\ gold \in [qid : {1}, emotion_label : {"joy", "Joy", ""},
               cause_label : {"win", ""}]
  /\ lead = <<>> /\ core = <<>> /\ trail = <<>>
  /\ obj = NoObject
  /\ extracted = NotCalled
  /\ eval_result = NoResult
  /\ ids_arg = <<>>
  /\ progress_text = <<>>
  /\ ids_loaded = <<>>
  /\ dirs_before = {} /\ globals = NoGlobals /\ dirs_after = {}
  /\ result_lines = <<>> /\ report = NoStats

\* save_progress is called on an id list
LedgerInit ==
  /\ ppc = "ledger"
  /\ ids_arg \in IdLists
  /\ lead = <<>> /\ core = <<>> /\ trail = <<>>
  /\ obj = NoObject
  /\ extracted = NotCalled
  /\ api_response = EmptyDict
  /\ gold = NoItem
  /\ eval_result = NoResult
  /\ progress_text = <<>>
  /\ ids_loaded = <<>>
  /\ dirs_before = {} /\ globals = NoGlobals /\ dirs_after = {}
  /\ result_lines = <<>> /\ report = NoStats

\* setup_directories of the agir driver is called with any set of
\* result directories in place, gaps included
DirInit ==
  /\ ppc = "dirs"
  /\ dirs_before \in SUBSET (1..MaxDirs)
  /\ globals = NoGlobals
  /\ dirs_after = {}
  /\ lead = <<>> /\ core = <<>> /\ trail = <<>>
  /\ obj = NoObject
  /\ extracted = NotCalled
  /\ api_response = EmptyDict
  /\ gold = NoItem
  /\ eval_result = NoResult
  /\ ids_arg = <<>>
  /\ progress_text = <<>>
  /\ ids_loaded = <<>>
  /\ result_lines = <<>> /\ report = NoStats

\* the answers the scored lines of a results file are made from
StatAnswers ==
  {[emotion |-> e, cause |-> c] : e \in {"joy", "Joy"}, c \in {"win", ""}}

\* a results file is built by save_result of evaluate_responses records
\* and the statistics are computed from it
StatsInit ==
  /\ ppc = "stats"
  /\ result_lines = <<>>
  /\ report = NoStats
  /\ lead = <<>> /\ core = <<>> /\ trail = <<>>
  /\ obj = NoObject
  /\ extracted = NotCalled
  /\ api_response = EmptyDict
  /\ gold = NoItem
  /\ eval_result = NoResult
  /\ ids_arg = <<>>
  /\ progress_text = <<>>
  /\ ids_loaded = <<>>
  /\ dirs_before = {} /\ globals = NoGlobals /\ dirs_after = {}

\* the functions read nothing of a run: one fixed configuration
PureInit ==
  /\ RunInit
  /\ driver = "agir"
  /\ retries = 1
  /\ ExtractInit \/ ScoreInit \/ LedgerInit \/ DirInit \/ StatsInit

CallQueryGptExtract ==
  /\ ppc = "extract"
  /\ extracted' = query_gpt_extract(content)
  /\ ppc' = "extracted_main"
  /\ UNCHANGED <<runvars, dirvars, statvars, lead, core, trail, obj, api_response, gold,
                 eval_result, ids_arg, progress_text, ids_loaded>>

CallQueryAgirExtract ==
  /\ ppc = "extract"
  /\ extracted' = query_agir_api_extract(content)
  /\ ppc' = "extracted_agir"
  /\ UNCHANGED <<runvars, dirvars, statvars, lead, core, trail, obj, api_response, gold,
                 eval_result, ids_arg, progress_text, ids_loaded>>

CallEvaluateResponses ==
  /\ ppc = "score"
  /\ eval_result' = evaluate_responses(api_response, gold)
  /\ ppc' = "scored"
  /\ UNCHANGED <<runvars, dirvars, statvars, lead, core, trail, obj, extracted, api_response,
                 gold, ids_arg, progress_text, ids_loaded>>

CallSaveProgress ==
  /\ ppc = "ledger"
  /\ progress_text' = json_dump_progress(save_progress(ids_arg).ids)
  /\ ppc' = "saved"
  /\ UNCHANGED <<runvars, dirvars, statvars, lead, core, trail, obj, extracted, api_response,
                 gold, eval_result, ids_arg, ids_loaded>>

CallLoadProgress ==
  /\ ppc = "saved"
  /\ ids_loaded' = json_load_progress(progress_text)
  /\ ppc' = "loaded"
  /\ UNCHANGED <<runvars, dirvars, statvars, lead, core, trail, obj, extracted, api_response,
                 gold, eval_result, ids_arg, progress_text>>

CallSetupDirectories ==
  /\ ppc = "dirs"
  /\ LET d == setup_directories("agir", dirs_before)
     IN  /\ globals' = module_globals(d)
         /\ dirs_after' = dirs_before \cup {d}
  /\ ppc' = "dir_chosen"
  /\ UNCHANGED <<runvars, statvars, dirs_before, lead, core, trail, obj, extracted,
                 api_response, gold, eval_result, ids_arg, progress_text,
                 ids_loaded>>

\* save_result(evaluate_responses(api_response, item)) for one more item
CallSaveResult(resp, q) ==
  /\ ppc = "stats"
  /\ Len(result_lines) < MaxLines
  /\ result_lines' = save_result(result_lines, evaluate_responses(resp, EU(q)))
  /\ UNCHANGED <<runvars, dirvars, ppc, report, lead, core, trail, obj,
                 extracted, api_response, gold, eval_result, ids_arg,
                 progress_text, ids_loaded>>

\* main.py / agir: calculate_statistics() on the file
CallCalculateStatistics ==
  /\ ppc = "stats"
  /\ report' = calculate_statistics(result_lines)
  /\ ppc' = "reported"
  /\ UNCHANGED <<runvars, dirvars, result_lines, lead, core, trail, obj,
                 extracted, api_response, gold, eval_result, ids_arg,
                 progress_text, ids_loaded>>

\* analyze_results.py: calculate_metrics(load_results(file))
CallCalculateMetrics ==
  /\ ppc = "stats"
  /\ result_lines # <<>>
  /\ report' = calculate_metrics(result_lines)
  /\ ppc' = "measured"
  /\ UNCHANGED <<runvars, dirvars, result_lines, lead, core, trail, obj,
                 extracted, api_response, gold, eval_result, ids_arg,
                 progress_text, ids_loaded>>

PureNext ==
  \/ CallQueryGptExtract
  \/ CallQueryAgirExtract
  \/ CallEvaluateResponses
  \/ CallSaveProgress
  \/ CallLoadProgress
  \/ CallSetupDirectories
  \/ \E resp \in StatAnswers, q \in 1..NumItems : CallSaveResult(resp, q)
  \/ CallCalculateStatistics
  \/ CallCalculateMetrics

SpecPure == PureInit /\ [][PureNext]_vars

TypeOK ==
  /\ pc \in Stopped \cup BoundaryPcs
       \cup {"test_connection", "attempt", "await", "sleep", "returned",
             "save_result", "append_id", "save_progress",
             "save_progress_write"}
  /\ dirs \subseteq DirIds
  /\ unlabelled \subseteq SeqToSet(Data)
  /\ test_connection \in BOOLEAN
  /\ skipped \in BOOLEAN
  /\ attempt \in 0..retries
  /\ requests \in 0..retries

\* ------------------------------------------------- vocabulary of the claims
ResultQids(lines) == {lines[i].qid : i \in 1..Len(lines)}

\* the result lines the current run has appended to its location
RunLines == SubSeq(results[cur], run_base + 1, Len(results[cur]))

\* processed_ids stored in a progress file (none if absent or truncated)
LedgerIds(file) == SeqToSet(load_progress(file))

NoDuplicateQids(lines) == Cardinality(ResultQids(lines)) = Len(lines)

\* positions inside the for loop of run_test
LoopPcs ==
  {"loop", "attempt", "await", "sleep", "returned", "save_result",
   "append_id", "save_progress", "save_progress_write"}

\* positions between save_result and the end of save_progress
PersistWindow == {"append_id", "save_progress", "save_progress_write"}

\* a step of the running process (not its termination from outside)
ProgramStep == pc' # "killed"

\* ---------------------------------------------------------------------- C1
\* C1 (as stated): in every state of run_test after a result line has been
\* appended, also between save_result and save_progress and on a location
\* that already held artifacts, the qids of the results file are a subset
\* of the processed_ids stored in the progress file.
C1_ResultsWithinLedger ==
  (pc \in LoopPcs /\ Len(results[cur]) > run_base)
    => ResultQids(results[cur]) \subseteq LedgerIds(progress[cur])

\* C1 (amended): whenever run_test is at an item boundary, i.e. not between
\* save_result and the end of save_progress of an item, the qids of the
\* result lines appended by the current run are a subset of the
\* processed_ids stored in the progress file.
C1_RunLinesWithinLedgerAtBoundary ==
  (pc \in (LoopPcs \cup {"stats", "done"}) \ PersistWindow)
    => ResultQids(RunLines) \subseteq LedgerIds(progress[cur])

\* an item boundary of a run that appended a line to a location that
\* already held result lines
C1_Witness ==
  /\ pc = "loop"
  /\ run_base > 0
  /\ Len(results[cur]) > run_base

\* ---------------------------------------------------------------------- C2
\* C2: when every restart is a --resume, whatever the point at which the
\* process was terminated, no completed item is appended again: no results
\* file holds two lines with the same qid.
C2_NoItemRedoneOnResume ==
  clean_hist => \A d \in DirIds : NoDuplicateQids(results[d])

\* ---------------------------------------------------------------------- C3
\* C3: save_progress replaces the ledger atomically: at every instant the
\* progress file is a complete ledger (or absent), never a truncated one.
C3_LedgerNeverPartial ==
  \A d \in DirIds : progress[d].kind \in {"absent", "ledger"}

\* ---------------------------------------------------------------------- C4
\* C4: main.py driver; every stop so far was at an item boundary and every
\* restart a --resume: the restart processes exactly the items whose qid is
\* not in the ledger, and when it completes the results file has exactly
\* one line per dataset item.
C4_ResumeCompletesDataset ==
  (driver = "main" /\ runs >= 2 /\ resume /\ limit = <<>>
     /\ clean_hist /\ boundary_hist)
    => /\ pc \in LoopPcs =>
            data_to_process =
              FilterProcessed(Data, load_progress(base_progress))
       /\ pc \in {"stats", "done"} =>
            /\ Len(results[cur]) = NumItems
            /\ ResultQids(results[cur]) = SeqToSet(Data)

\* ---------------------------------------------------------------------- C5
\* C5: agir driver; a run started with --resume after an earlier run loads
\* the ledger the earlier run wrote and skips the items it lists.
C5_AgirResumeLoadsPriorLedger ==
  (driver = "agir" /\ resume /\ cur > 1 /\ pc \in LoopPcs)
    => /\ LedgerIds(progress[cur - 1]) \subseteq SeqToSet(processed_ids)
       /\ SeqToSet(data_to_process) \cap LedgerIds(progress[cur - 1]) = {}

\* ---------------------------------------------------------------------- C6
\* C6 (as stated): for both drivers a run writes only to a fresh location:
\* the location it writes to held no results and no progress file when the
\* run started.
C6_RunWritesFreshLocation ==
  (pc \notin Stopped \cup {"setup"})
    => (run_base = 0 /\ base_progress = Absent)

\* C6 (amended): in the agir driver every run, with or without --resume,
\* selects a location that did not exist and no step changes the files of
\* any other location, so prior results and ledgers are unchanged; main.py
\* always writes to its one fixed location.
C6_AgirIsolatesRuns ==
  [][ /\ (pc = "setup" /\ pc' = "run_test") =>
           IF driver = "agir"
             THEN /\ MODEL_RESULTS_DIR' \notin dirs
                  /\ ~HasArtifacts(MODEL_RESULTS_DIR')
             ELSE MODEL_RESULTS_DIR' = 1
      /\ driver = "agir" =>
           \A d \in dirs \ {MODEL_RESULTS_DIR} :
             results'[d] = results[d] /\ progress'[d] = progress[d]
    ]_vars

\* a second agir run has completed next to the results of the first
C6_Witness ==
  /\ driver = "agir"
  /\ pc = "done"
  /\ cur = 2
  /\ Len(results[1]) > 0
  /\ Len(results[2]) > 0

\* ---------------------------------------------------------------------- C7
\* C7: at most retries requests are sent for one item; after a network
\* failure or non-2xx response the query function waits and retries if
\* attempt < retries - 1, and otherwise the process exits with status 1.
C7_BoundedRetryThenExit ==
  [][ /\ requests' <= retries
      /\ (pc = "await" /\ ProgramStep /\ last_outcome' \in NetworkFailures)
           => IF attempt < retries - 1
                THEN pc' = "sleep" /\ exit_status' = 0
                ELSE pc' = "exited" /\ exit_status' = 1
      /\ (pc = "sleep" /\ ProgramStep)
           => (pc' = "attempt" /\ attempt' = attempt + 1)
      /\ (pc = "attempt" /\ ProgramStep /\ attempt > 0
            /\ last_outcome \in NetworkFailures)
           => (pc' = "await" /\ requests' = requests + 1)
    ]_vars

\* the last of several attempts failed at the network level: process exit
C7_Witness ==
  /\ pc = "exited"
  /\ exit_status = 1
  /\ last_outcome \in NetworkFailures
  /\ retries >= 2
  /\ requests = retries

\* ---------------------------------------------------------------------- C8
\* C8 (as stated): in both drivers a non-empty completion from which no
\* answer can be extracted is retried while attempts remain, and aborts the
\* run only on the final attempt.
C8_ExtractionFailureRetried ==
  [][ (pc = "await" /\ ProgramStep /\ last_outcome' = "unparseable")
        => IF attempt < retries - 1
             THEN pc' \in {"sleep", "attempt"}
             ELSE pc' = "exited"
    ]_vars

\* C8 (amended): in query_agir_api an extraction failure is retried while
\* attempts remain and aborts the run on the final attempt; in query_gpt
\* (main.py) an extraction failure aborts the run on whichever attempt it
\* happens.
C8_ExtractionFailurePerDriver ==
  [][ (pc = "await" /\ ProgramStep /\ last_outcome' = "unparseable")
        => IF driver = "agir" /\ attempt < retries - 1
             THEN pc' = "sleep" /\ exit_status' = 0
             ELSE pc' = "exited" /\ exit_status' = 1
    ]_vars

\* the agir driver waits for a retry after an extraction failure
C8_Witness ==
  /\ driver = "agir"
  /\ pc = "sleep"
  /\ last_outcome = "unparseable"

\* ---------------------------------------------------------------------- C9
\* the step an attempt takes on outcome o in the current state
StepOn(o) == QueryStep(driver, MODEL_NAME, attempt, retries, o)

\* C9 (as stated): in both drivers, for every attempt and model, the step
\* after an empty or whitespace-only completion is the step after a
\* non-empty completion that fails extraction.
C9_EmptyLikeExtractionFailure ==
  pc = "await" =>
    \A e \in EmptyCompletions : StepOn(e) = StepOn("unparseable")

\* C9 (amended): the two steps are the same in query_agir_api, and in
\* query_gpt for every model other than o4-mini and for o4-mini on the
\* final attempt; in query_gpt with o4-mini and attempts remaining an empty
\* completion is retried at once while an extraction failure aborts.
C9_EmptyLikeExtractionFailureExceptO4Mini ==
  pc = "await" =>
    \A e \in EmptyCompletions :
      IF driver = "main" /\ MODEL_NAME = "o4-mini" /\ attempt < retries - 1
        THEN StepOn(e).act = "continue" /\ StepOn("unparseable").act = "exit"
        ELSE StepOn(e) = StepOn("unparseable")

\* the agir driver waits for a retry after an empty completion
C9_Witness ==
  /\ driver = "agir"
  /\ pc = "sleep"
  /\ last_outcome \in EmptyCompletions

\* --------------------------------------------------------------------- C10
\* C10: query_gpt with MODEL_NAME = "o4-mini"; when the previous attempt
\* returned an empty completion, the request in flight carries the
\* simplified prompt as its message content.
C10_SimplifiedPromptSent ==
  (driver = "main" /\ MODEL_NAME = "o4-mini" /\ pc = "await"
     /\ attempt > 0 /\ last_outcome \in EmptyCompletions)
    => sent = "simple_prompt"

\* --------------------------------------------------------------------- C11
\* positions of the query function (an item is being queried)
QueryPcs == {"attempt", "await", "sleep"}

\* C11: when every attempt for an item returns an empty body the run
\* aborts: an empty body never ends the query otherwise than by a retry or
\* the exit, the last attempt exits with status 1, no step of the query
\* touches the results or progress file or moves to another item, and at
\* the exit the run has written no record and no ledger entry for the item.
C11_EmptyExhaustionAbortsCleanly ==
  [][ /\ (pc = "await" /\ ProgramStep /\ last_outcome' \in EmptyCompletions)
           => /\ pc' \in {"sleep", "attempt", "exited"}
              /\ attempt = retries - 1 => (pc' = "exited" /\ exit_status' = 1)
      /\ pc \in QueryPcs
           => /\ results' = results /\ progress' = progress
              /\ ProgramStep => (idx' = idx /\ processed_ids' = processed_ids)
      /\ (pc \in QueryPcs /\ pc' = "exited")
           => /\ item \notin ResultQids(RunLines)
              /\ item \notin SeqToSet(processed_ids)
              /\ \A k \in (idx + 1)..Len(data_to_process) :
                   data_to_process[k] \notin ResultQids(RunLines)
    ]_vars

\* the second item got an empty body on each of several attempts, after
\* the first item was persisted
C11_Witness ==
  /\ pc = "exited"
  /\ last_outcome \in EmptyCompletions
  /\ retries >= 2
  /\ requests = retries
  /\ idx = 2
  /\ Len(RunLines) = 1

\* --------------------------------------------------------------------- C12
\* C12: every item taken up by run_test ends persisted or in the exit of
\* the process: the loop never advances to the next item otherwise than
\* from the end of save_progress.
C12_NoItemSkipped ==
  [][ (pc \in LoopPcs /\ pc' = "loop" /\ idx' = idx + 1)
        => pc = "save_progress_write"
    ]_vars

\* --------------------------------------------------------------------- C16
\* C16: an empty or whitespace-only completion is an extraction failure
\* under the retry-or-abort policy, in both drivers and on every attempt:
\* it is never returned as an answer, never ends the process by an
\* unhandled exception, and is followed by a retry (only while attempts
\* remain) or by the exit with status 1.
C16_EmptyCompletionIsFailure ==
  [][ (pc = "await" /\ ProgramStep /\ last_outcome' \in EmptyCompletions)
        => /\ pc' \notin {"returned", "save_result", "crashed"}
           /\ gpt_response' = "none"
           /\ \/ pc' \in {"sleep", "attempt"} /\ attempt < retries - 1
                   /\ exit_status' = 0
              \/ pc' = "exited" /\ exit_status' = 1
    ]_vars

\* main.py with a model other than o4-mini exits on a whitespace-only
\* completion of the first of several attempts
C16_Witness ==
  /\ driver = "main"
  /\ MODEL_NAME # "o4-mini"
  /\ pc = "exited"
  /\ last_outcome = "blank"
  /\ attempt = 0
  /\ retries >= 2

\* --------------------------------------------------------------------- C17
IsIncreasing(s) == \A i \in 1..(Len(s) - 1) : s[i] < s[i + 1]

C20_StrictlySequential ==
  pc \in QueryPcs
    => /\ \A k \in idx..Len(data_to_process) :
            data_to_process[k] \notin ResultQids(RunLines)
       /\ ResultQids(RunLines) \subseteq LedgerIds(progress[cur])
       /\ Len(RunLines) <= idx - 1

\* the request for the second item is in flight, the first is persisted
C20_Witness ==
  /\ pc = "await"
  /\ idx = 2
  /\ Len(RunLines) = 1
  /\ progress[cur] = Ledger(processed_ids)

\* --------------------------------------------------------------------- C13
Succeeds(r) == r.kind = "dict"

\* the three steps tried in order, the first success returned
FirstSuccess(t) ==
  IF Succeeds(parse_whole(t)) THEN parse_whole(t)
  ELSE IF Succeeds(parse_match(t)) THEN parse_match(t)
  ELSE extract_fields(t)

\* C13: the extraction of query_agir_api returns the result of the first
\* of its three steps that succeeds on the trimmed text, and fails only if
\* all three fail.
C13_FirstSuccessOfThreeSteps ==
  (ppc = "extracted_agir" /\ extracted # EmptyContent)
    => extracted = FirstSuccess(strip(content))

C15_CommentaryIgnored ==
  (ppc = "extracted_agir" /\ obj.valid)
    => extracted = query_agir_api_extract(core)

\* --------------------------------------------------------------------- C18
\* C18: save_progress(ids) followed by load_progress() returns exactly ids:
\* the list read back from the text json.dump wrote is the list written,
\* in length, order and repetitions.
C18_LedgerRoundTrip ==
  ppc = "loaded"
    => /\ ids_loaded = ids_arg
       /\ load_progress(save_progress(ids_arg)) = ids_arg

\* a list with a repeated id went through the file
C18_Witness ==
  /\ ppc = "loaded"
  /\ ids_arg = <<"q2", "q2">>
  /\ ids_loaded = <<"q2", "q2">>

\* --------------------------------------------------------------------- C19
\* C19: evaluate_responses sets emotion_correct iff the predicted emotion
\* is the very string of the gold label (an absent key counting as ""),
\* cause_correct likewise, and both_correct iff both.
C19_ExactMatchScoring ==
  ppc = "scored"
    => /\ eval_result.emotion_correct
            <=> \/ "emotion" \in DOMAIN api_response
                     /\ api_response["emotion"] = gold.emotion_label
                \/ "emotion" \notin DOMAIN api_response
                     /\ gold.emotion_label = ""
       /\ eval_result.cause_correct
            <=> \/ "cause" \in DOMAIN api_response
                     /\ api_response["cause"] = gold.cause_label
                \/ "cause" \notin DOMAIN api_response
                     /\ gold.cause_label = ""
       /\ eval_result.both_correct
            <=> (eval_result.emotion_correct /\ eval_result.cause_correct)
       /\ eval_result.qid = gold.qid

\* an answer that differs from the gold emotion in case only was scored
\* wrong on the emotion and right on the cause
C19_Witness ==
  /\ ppc = "scored"
  /\ gold.emotion_label = "joy"
  /\ api_response = [emotion |-> "Joy", cause |-> "win"]
  /\ ~eval_result.emotion_correct
  /\ eval_result.cause_correct
  /\ ~eval_result.both_correct

\* --------------------------------------------------------------------- C21
\* C21: a complete run from an empty output location over the whole
\* dataset in which every item got an answer object (no item was skipped,
\* the run was not aborted) leaves one result line per dataset record, in
\* dataset order, and a ledger whose processed_ids is the sequence of all
\* qids.
C21_CompleteRunPersistsAll ==
  (pc = "done" /\ ~test_connection /\ limit = <<>> /\ ~skipped
     /\ run_base = 0 /\ base_progress = Absent)
    => /\ Len(results[cur]) = NumItems
       /\ \A i \in 1..NumItems : results[cur][i].qid = Data[i]
       /\ progress[cur].kind = "ledger"
       /\ load_progress(progress[cur]) = Data

\* such a run has ended, its last item answered at the first request
C21_Witness ==
  /\ pc = "done"
  /\ ~test_connection /\ limit = <<>> /\ ~skipped
  /\ run_base = 0 /\ base_progress = Absent
  /\ last_outcome = "answer" /\ requests = 1
  /\ Len(results[cur]) = NumItems
  /\ stats.total_items = NumItems

\* --------------------------------------------------------------------- C22
\* the items that are not yet processed when run_test starts
Remaining ==
  IF resume THEN FilterProcessed(Data, load_progress(base_progress)) ELSE Data

\* C22: with --limit N a run takes up at most N new items (none for a
\* negative N), and for N >= 0 the first min(N, remaining) unprocessed
\* items in dataset order.
C22_LimitCapsNewItems ==
  (pc \in LoopPcs /\ limit # <<>>)
    => /\ Len(data_to_process) <= Max(limit[1], 0)
       /\ limit[1] >= 0
            => data_to_process
                 = SubSeq(Remaining, 1, Min(limit[1], Len(Remaining)))

\* --------------------------------------------------------------------- C23
\* C23: the statistics reported at the end of a run count each dataset
\* item persisted in the run's location once: total_items is the number of
\* such items, and each accuracy is the number of records with the flag
\* true over total_items (stated for runs on locations that were only ever
\* restarted with --resume).
C23_StatisticsCountEachItemOnce ==
  (pc = "done" /\ ~test_connection /\ clean_hist /\ results[cur] # <<>>)
    => /\ stats.total_items = Cardinality(ResultQids(results[cur]))
       /\ stats.emotion_accuracy[2] = stats.total_items
       /\ stats.emotion_accuracy[1]
            = Cardinality({q \in ResultQids(results[cur]) :
                 \E i \in 1..Len(results[cur]) :
                    results[cur][i].qid = q /\ results[cur][i].emotion_correct})

\* --------------------------------------------------------------------- C24
IsPrefix(s, t) == Len(s) <= Len(t) /\ SubSeq(t, 1, Len(s)) = s

\* C24: the results file is append-only: every step leaves the lines of
\* every location in place (the old content is a prefix of the new), only
\* save_result changes a file, and it adds exactly one line, the record of
\* the item that was scored.
C24_ResultsAppendOnly ==
  [][ /\ \A d \in DirIds : IsPrefix(results[d], results'[d])
      /\ pc # "save_result" => results' = results
      /\ (pc = "save_result" /\ ProgramStep)
           => /\ Len(results'[cur]) = Len(results[cur]) + 1
              /\ results'[cur][Len(results'[cur])].qid = item
              /\ \A d \in DirIds \ {cur} : results'[d] = results[d]
    ]_vars

\* a line was appended to a file that already held one
C24_Witness ==
  /\ pc = "append_id"
  /\ Len(results[cur]) >= 2
  /\ results[cur][Len(results[cur])].qid = item

\* --------------------------------------------------------------------- C25
\* the item the for loop of run_test is at, if any
InFlight == IF idx \in 1..Len(data_to_process) THEN {item} ELSE {}

\* C25: at every point of a run at most one item has a result line of the
\* run without its qid in the progress file, and it is the item in flight.
C25_AtMostOneItemUnledgered ==
  pc \in LoopPcs
    => /\ Cardinality(ResultQids(RunLines) \ LedgerIds(progress[cur])) <= 1
       /\ ResultQids(RunLines) \ LedgerIds(progress[cur]) \subseteq InFlight

C27_TestConnectionOnlyProbes ==
  [][ (test_connection /\ pc \notin Stopped)
        => /\ dirs' = dirs
           /\ results' = results
           /\ progress' = progress
           /\ ProgramStep => (idx' = 0 /\ requests' = 0)
    ]_vars

\* --------------------------------------------------------------------- C28
\* C28: in every state, crash states and reruns without --resume on a used
\* location included, every qid of a progress file has a line in the
\* results file of the same location.
C28_LedgerWithinResults ==
  \A d \in DirIds : LedgerIds(progress[d]) \subseteq ResultQids(results[d])

\* main.py was run again without --resume on a used location and was
\* terminated from outside; the location has a ledger that lists ids
C28_Witness ==
  /\ driver = "main"
  /\ ~clean_hist
  /\ pc = "killed"
  /\ progress[1].kind = "ledger"
  /\ progress[1].ids # <<>>
  /\ Len(results[1]) > Len(progress[1].ids)

\* --------------------------------------------------------------------- C29
\* C29: for every set of existing result directories, gaps included,
\* setup_directories of the agir driver selects the first version of the
\* name that does not exist: the selected directory did not exist, every
\* earlier version did, PROGRESS_FILE and RESULTS_FILE lie inside it, and
\* it is the one directory the call creates.
C29_FirstFreeVersionSelected ==
  ppc = "dir_chosen"
    => LET d == globals.MODEL_RESULTS_DIR
       IN /\ d >= 1
          /\ d \notin dirs_before
          /\ \A v \in 1..(d - 1) : v \in dirs_before
          /\ globals.PROGRESS_FILE = [dir |-> d, name |-> "progress.json"]
          /\ globals.RESULTS_FILE = [dir |-> d, name |-> "results.jsonl"]
          /\ dirs_after = dirs_before \cup {d}

\* the first and the third name exist, the second is selected
C29_Witness ==
  /\ ppc = "dir_chosen"
  /\ dirs_before = {1, 3}
  /\ globals.MODEL_RESULTS_DIR = 2

\* --------------------------------------------------------------------- C30
\* C30: two consecutive attempts for an item are separated by one wait,
\* whatever the failure: the attempt counter advances only out of the
\* wait, and the wait is entered only after a failed attempt that is not
\* the last one.
C30_OneWaitBetweenAttempts ==
  [][ /\ (pc \in QueryPcs /\ pc' = "attempt" /\ attempt' = attempt + 1)
           => pc = "sleep"
      /\ (pc # "sleep" /\ pc' = "sleep")
           => /\ pc = "await"
              /\ last_outcome' \notin {"answer", "empty_object"}
              /\ attempt < retries - 1
    ]_vars

\* --------------------------------------------------------------------- C31
\* the list a run holds before it records an item: the list its previous
\* save_progress call wrote, the list loaded at start, or the empty list
PreviousIds ==
  IF Len(RunLines) >= 2 \/ resume
    THEN load_progress(progress[cur]) ELSE <<>>

\* C31: within one run the id list written by each save_progress call is
\* the list written by the previous call (the list loaded at start, or
\* the empty list without --resume) extended at its end by the qid of the
\* item just persisted; no step of the run removes or reorders an id, and
\* the list has no duplicates.
C31_LedgerGrowsByOneId ==
  [][ ProgramStep =>
        /\ (pc = "run_test" /\ pc' = "loop")
             => processed_ids' =
                  (IF resume THEN load_progress(progress[cur]) ELSE <<>>)
        /\ (pc = "append_id")
             => /\ processed_ids = PreviousIds
                /\ processed_ids' = Append(processed_ids, item)
        /\ (pc = "save_progress_write")
             => /\ progress'[cur] = Ledger(processed_ids)
                /\ load_progress(progress'[cur])
                     = Append(SubSeq(processed_ids, 1,
                                     Len(processed_ids) - 1), item)
        /\ (pc \in LoopPcs \ {"append_id"})
             => processed_ids' = processed_ids
        /\ (pc' \in LoopPcs)
             => Cardinality(SeqToSet(processed_ids')) = Len(processed_ids')
    ]_vars

\* a resumed run loaded a list of one id and its save_progress call wrote
\* that list extended by the qid of the item it persisted
C31_Witness ==
  /\ pc = "loop"
  /\ resume
  /\ Len(RunLines) = 1
  /\ Len(load_progress(base_progress)) = 1
  /\ progress[cur] =
       Ledger(Append(load_progress(base_progress), RunLines[1].qid))

\* --------------------------------------------------------------------- C32
\* the number of lines a reported accuracy counts as correct
CorrectCount(accuracy) == accuracy[1]

\* C32: for every results file made only of save_result calls on
\* evaluate_responses records, the statistics computed from it
\* (calculate_statistics, and calculate_metrics of analyze_results.py)
\* have a both-correct count that is at most the emotion-correct count
\* and at most the cause-correct count, and each of the three counts lies
\* between 0 and total_items.
C32_BothCorrectBounded ==
  (ppc \in {"reported", "measured"} /\ report # StatsError)
    => LET emotion == CorrectCount(report.emotion_accuracy)
           cause == CorrectCount(report.cause_accuracy)
           both == CorrectCount(report.both_correct_accuracy)
       IN /\ report.total_items = Len(result_lines)
          /\ both <= emotion
          /\ both <= cause
          /\ {emotion, cause, both} \subseteq 0..report.total_items

\* statistics of a file of three lines: one is right on both labels, one
\* on the emotion only and one on the cause only
C32_Witness ==
  /\ ppc = "reported"
  /\ report # StatsError
  /\ report.total_items = 3
  /\ CorrectCount(report.emotion_accuracy) = 2
  /\ CorrectCount(report.cause_accuracy) = 2
  /\ CorrectCount(report.both_correct_accuracy) = 1

\* --------------------------------------------------------------------- C33
\* run_test went through every selected item and main logged the summary
RunCompleted ==
  /\ pc = "done"
  /\ idx = Len(data_to_process) + 1
  /\ stats # NoStats

\* sys.exit(1), or an uncaught exception (the interpreter exits with 1)
ExitedWithStatus1 == pc \in {"exited", "crashed"} /\ exit_status = 1

\* C33: for every retries >= 1 and every backend behaviour in which each
\* request returns or raises, a run over the dataset that is left alone
\* eventually either has handled every selected item and reported the
\* statistics, or has exited with status 1; and no item is ever attempted
\* more than retries times.
C33_RunTerminates ==
  /\ [](attempt <= retries /\ requests <= retries)
  /\ (pc = "run_test") ~> (RunCompleted \/ ExitedWithStatus1)

\* a run ended with the summary after its last item needed every attempt
C33_Witness ==
  /\ RunCompleted
  /\ retries >= 2
  /\ requests = retries
  /\ Len(data_to_process) = NumItems
  /\ stats # StatsError

====
